---- MODULE Spec2Model ----
(***************************************************************************)
(* A model of the FFI bridging layer of discord_game_sdk: the dispatch     *)
(* callbacks of src/src/event.rs, the channel bundle of                    *)
(* src/src/event/channels.rs, the asynchronous overlay and storage calls   *)
(* of src/src/methods/overlay.rs and src/src/methods/storage.rs, the       *)
(* synchronous storage calls of src/src/methods/storage.rs, and the text   *)
(* held in fixed-capacity buffers by src/src/input_mode.rs and             *)
(* src/src/achievement.rs.                                                 *)
(*                                                                         *)
(* The native library is the environment.  It fires dispatch callbacks   *)
(* and completion trampolines only while a "process pending callbacks"     *)
(* poll runs, it completes an accepted asynchronous request at most once,  *)
(* and it may never complete one.                                          *)
(***************************************************************************)
EXTENDS Integers, Sequences, FiniteSets, TLC

VARIABLES
    chan,       \* channel name -> queue of events (Senders/Receivers pair)
    sentLog,    \* channel name -> every event the queue accepted, in order
    taken,      \* channel name -> every event removed, in order, with how
    receivers,  \* number of live Receivers clones
    drainPc,    \* 0: empty_channels not running; k: it is at channel k
    inPoll,     \* a "process pending callbacks" call is running
    fired,      \* native callback invocations so far
    lastCall,   \* the last dispatch slot the native library invoked, its data
    logged,     \* number of errors written to the log
    fault,      \* "none"; "panic" once a call has panicked; "abort" or
                \* "unwound" once a panic has left an extern "C" callback
    boxes,      \* box id -> Callback Context Box
    ret,        \* the last synchronous storage call and what it returned
    build,      \* "debug": debug assertions are compiled in; "release": not
    im,         \* the InputMode value under construction
    imIn,       \* the last InputMode call, its argument and how it ended
    ach,        \* the last run_test of achievement.rs and what it read back
    drains      \* thread -> where its empty_channels call is (0: not in one)

codecVars == <<build, im, imIn, ach>>

vars == <<chan, sentLog, taken, receivers, drainPc, inPoll, fired, lastCall,
          logged, fault, boxes, ret, build, im, imIn, ach, drains>>

(***************************************************************************)
(* Bounds of the model.                                                    *)
(***************************************************************************)
MaxFire == 2
MaxClones == 2
MaxOps == 2

(***************************************************************************)
(* The 22 channels, in the order empty_channels visits them.               *)
(***************************************************************************)
ChannelOrder ==
    << "achievements_update", "activities_join", "activities_spectate",
       "activities_request", "activities_invite", "lobbies_update",
       "lobbies_delete", "lobbies_member_connect", "lobbies_member_update",
       "lobbies_member_disconnect", "lobbies_message", "lobbies_speaking",
       "lobbies_network_message", "networking_message",
       "networking_route_update", "overlay_toggle", "relationships_refresh",
       "relationships_update", "store_entitlement_create",
       "store_entitlement_delete", "current_user_update",
       "voice_settings_update" >>

Channels == { ChannelOrder[i] : i \in 1..Len(ChannelOrder) }

\* create_channels: every channel starts as an empty unbounded queue.
create_channels == [c \in Channels |-> <<>>]

(***************************************************************************)
(* Results.                                                                *)
(***************************************************************************)
Ok(v) == [ok |-> TRUE, val |-> v]
Err(e) == [ok |-> FALSE, err |-> e]

(***************************************************************************)
(* Raw data the native library hands to a dispatch callback.  A C string   *)
(* is the bytes at the pointer, terminator included.                       *)
(***************************************************************************)
RawStrings == { <<65, 0>>, <<255, 0>> }

RECURSIVE UntilNul(_)
UntilNul(bytes) ==
    IF bytes = <<>> \/ Head(bytes) = 0 THEN <<>>
    ELSE <<Head(bytes)>> \o UntilNul(Tail(bytes))

\* Over the bytes of RawStrings: an ASCII byte is a character, 0xFF never
\* occurs in UTF-8.
Utf8Valid(bytes) == \A i \in 1..Len(bytes) : bytes[i] < 128

\* utils::from_cstr: the bytes before the terminator, as checked UTF-8.
from_cstr(raw) ==
    LET s == UntilNul(raw)
    IN  IF Utf8Valid(s) THEN Ok(s) ELSE Err("Utf8Error")

RawUsers == { [id |-> 7, username |-> r] : r \in RawStrings }
RawActivities == { [name |-> r] : r \in RawStrings }

\* User::from_sys_ptr: a copy of the struct with its text fields decoded.
User_from_sys_ptr(u) ==
    LET n == from_cstr(u.username)
    IN  IF n.ok THEN Ok([id |-> u.id, username |-> n.val]) ELSE n

\* Activity::from_sys_ptr.
Activity_from_sys_ptr(a) ==
    LET n == from_cstr(a.name)
    IN  IF n.ok THEN Ok([name |-> n.val]) ELSE n

(***************************************************************************)
(* Events, as the enums of event.rs name them.                             *)
(***************************************************************************)
Event(kind, data) == [kind |-> kind, data |-> data]

NoData == <<>>

(***************************************************************************)
(* Sending.  Senders hold crossbeam unbounded senders: a send appends to   *)
(* the queue and never blocks.  With every Receivers clone gone the        *)
(* channel is disconnected and the write does nothing.                     *)
(*                                                                         *)
(* A callback of event.rs writes through a field of the Discord struct    *)
(* (user_events, activity_events, overlay_events, voice_events), whose     *)
(* definition is not among the source files.  The write is taken to go to  *)
(* the sender of channels.rs that carries the kind of event written.       *)
(***************************************************************************)
\* Variant of Send: the event is put at the front of the queue.
SendLifo(q, e) == <<e>> \o q

Send(q, e) == Append(q, e)

\* Variant of single_write: the result of a failed send is unwrapped.
single_write_unwrap(c, e) ==
    IF receivers > 0
    THEN /\ chan' = [chan EXCEPT ![c] = Send(@, e)]
         /\ sentLog' = [sentLog EXCEPT ![c] = Append(@, e)]
         /\ fault' = fault
    ELSE /\ fault' = "panic"
         /\ UNCHANGED <<chan, sentLog>>

single_write(c, e) ==
    IF receivers > 0
    THEN /\ chan' = [chan EXCEPT ![c] = Send(@, e)]
         /\ sentLog' = [sentLog EXCEPT ![c] = Append(@, e)]
         /\ fault' = fault
    ELSE UNCHANGED <<chan, sentLog, fault>>

\* log::error!: the occurrence is logged and nothing is written.
LogAndDrop ==
    /\ logged' = logged + 1
    /\ UNCHANGED <<chan, sentLog, fault>>

(***************************************************************************)
(* The native library invokes a populated dispatch slot with the context   *)
(* pointer it was registered with, during a poll.                          *)
(***************************************************************************)
NativeFires(slot, arg) ==
    /\ inPoll
    /\ fired < MaxFire
    /\ fired' = fired + 1
    /\ lastCall' = [slot |-> slot, arg |-> arg]
    /\ UNCHANGED <<taken, receivers, drainPc, inPoll, boxes, ret>>

\* USER
on_current_user_update ==
    /\ NativeFires("on_current_user_update", NoData)
    /\ single_write("current_user_update", Event("CurrentUserUpdated", NoData))
    /\ UNCHANGED logged

\* ACTIVITY
\* Variant of on_activity_join: the text is taken as it is, undecoded.
on_activity_join_lossy(secret) ==
    /\ NativeFires("on_activity_join", secret)
    /\ single_write("activities_join", Event("Join", UntilNul(secret)))
    /\ UNCHANGED logged

on_activity_join(secret) ==
    /\ NativeFires("on_activity_join", secret)
    /\ LET s == from_cstr(secret)
       IN  IF s.ok
           THEN /\ single_write("activities_join", Event("Join", s.val))
                /\ UNCHANGED logged
           ELSE LogAndDrop

on_activity_spectate(secret) ==
    /\ NativeFires("on_activity_spectate", secret)
    /\ LET s == from_cstr(secret)
       IN  IF s.ok
           THEN /\ single_write("activities_spectate",
                                Event("Spectate", s.val))
                /\ UNCHANGED logged
           ELSE LogAndDrop

on_activity_join_request(user) ==
    /\ NativeFires("on_activity_join_request", user)
    /\ LET u == User_from_sys_ptr(user)
       IN  IF u.ok
           THEN /\ single_write("activities_request",
                                Event("Request", u.val))
                /\ UNCHANGED logged
           ELSE LogAndDrop

on_activity_invite(user, activity) ==
    /\ NativeFires("on_activity_invite", <<user, activity>>)
    /\ LET u == User_from_sys_ptr(user)
           a == Activity_from_sys_ptr(activity)
       IN  IF u.ok /\ a.ok
           THEN /\ single_write("activities_invite",
                                Event("Invite", <<u.val, a.val>>))
                /\ UNCHANGED logged
           ELSE LogAndDrop

\* A slot populated with a function whose body is empty.
EmptyBody(slot) ==
    /\ NativeFires(slot, NoData)
    /\ UNCHANGED <<chan, sentLog, fault, logged>>

\* RELATIONSHIP
on_refresh == EmptyBody("on_refresh")
on_relationship_update == EmptyBody("on_relationship_update")

\* LOBBY
on_lobby_update == EmptyBody("on_lobby_update")
on_lobby_delete == EmptyBody("on_lobby_delete")
on_member_connect == EmptyBody("on_member_connect")
on_member_update == EmptyBody("on_member_update")
on_member_disconnect == EmptyBody("on_member_disconnect")
on_lobby_message == EmptyBody("on_lobby_message")
on_speaking == EmptyBody("on_speaking")
on_network_message == EmptyBody("on_network_message")

\* NETWORK
on_message == EmptyBody("on_message")
on_route_update == EmptyBody("on_route_update")

\* OVERLAY
\* Variant of on_toggle: Opened and Closed are the wrong way round.
on_toggle_inverted(locked) ==
    /\ NativeFires("on_toggle", locked)
    /\ single_write("overlay_toggle",
                    IF locked THEN Event("Closed", NoData)
                    ELSE Event("Opened", NoData))
    /\ UNCHANGED logged

on_toggle(locked) ==
    /\ NativeFires("on_toggle", locked)
    /\ single_write("overlay_toggle",
                    IF locked THEN Event("Opened", NoData)
                    ELSE Event("Closed", NoData))
    /\ UNCHANGED logged

\* STORE
on_entitlement_create == EmptyBody("on_entitlement_create")
on_entitlement_delete == EmptyBody("on_entitlement_delete")

\* VOICE
\* Variant of on_settings_update: it writes to the user channel.
on_settings_update_user ==
    /\ NativeFires("on_settings_update", NoData)
    /\ single_write("current_user_update", Event("SettingsUpdated", NoData))
    /\ UNCHANGED logged

on_settings_update ==
    /\ NativeFires("on_settings_update", NoData)
    /\ single_write("voice_settings_update", Event("SettingsUpdated", NoData))
    /\ UNCHANGED logged

DispatchCallback ==
    \/ on_current_user_update
    \/ \E secret \in RawStrings : on_activity_join(secret)
    \/ \E secret \in RawStrings : on_activity_spectate(secret)
    \/ \E user \in RawUsers : on_activity_join_request(user)
    \/ \E user \in RawUsers, activity \in RawActivities :
           on_activity_invite(user, activity)
    \/ on_refresh
    \/ on_relationship_update
    \/ on_lobby_update
    \/ on_lobby_delete
    \/ on_member_connect
    \/ on_member_update
    \/ on_member_disconnect
    \/ on_lobby_message
    \/ on_speaking
    \/ on_network_message
    \/ on_message
    \/ on_route_update
    \/ \E locked \in BOOLEAN : on_toggle(locked)
    \/ on_entitlement_create
    \/ on_entitlement_delete
    \/ on_settings_update

(***************************************************************************)
(* The poll: "process pending callbacks".                                  *)
(***************************************************************************)
PollBegin ==
    /\ ~inPoll
    /\ inPoll' = TRUE
    /\ UNCHANGED <<chan, sentLog, taken, receivers, drainPc, fired, lastCall,
                   logged, fault, boxes, ret>>

PollEnd ==
    /\ inPoll
    /\ inPoll' = FALSE
    /\ UNCHANGED <<chan, sentLog, taken, receivers, drainPc, fired, lastCall,
                   logged, fault, boxes, ret>>

(***************************************************************************)
(* The consumer side: Receivers.                                           *)
(***************************************************************************)
Taken(e, how) == [event |-> e, how |-> how]

\* A consumer reads the oldest event of one channel (Receiver::try_recv).
Recv(c) ==
    /\ receivers > 0
    /\ chan[c] # <<>>
    /\ chan' = [chan EXCEPT ![c] = Tail(@)]
    /\ taken' = [taken EXCEPT ![c] = Append(@, Taken(Head(chan[c]), "recv"))]
    /\ UNCHANGED <<sentLog, receivers, drainPc, inPoll, fired, lastCall,
                   logged, fault, boxes, ret>>

\* #[derive(Clone)] on Receivers.
CloneReceivers ==
    /\ receivers > 0
    /\ receivers < MaxClones
    /\ receivers' = receivers + 1
    /\ UNCHANGED <<chan, sentLog, taken, drainPc, inPoll, fired, lastCall,
                   logged, fault, boxes, ret>>

DropReceivers ==
    /\ receivers > 0
    /\ receivers' = receivers - 1
    /\ UNCHANGED <<chan, sentLog, taken, drainPc, inPoll, fired, lastCall,
                   logged, fault, boxes, ret>>

\* Variant of empty_channels: the Receivers is consumed by the call.
empty_channels_consuming ==
    /\ receivers > 0
    /\ drainPc = 0
    /\ drainPc' = 1
    /\ receivers' = receivers - 1
    /\ UNCHANGED <<chan, sentLog, taken, inPoll, fired, lastCall,
                   logged, fault, boxes, ret>>

\* Receivers::empty_channels is entered.
empty_channels ==
    /\ receivers > 0
    /\ drainPc = 0
    /\ drainPc' = 1
    /\ UNCHANGED <<chan, sentLog, taken, receivers, inPoll, fired, lastCall,
                   logged, fault, boxes, ret>>

\* One try_recv of the try_iter().for_each(drop) of the current channel:
\* an event is dropped, or the channel is seen empty and the next line runs.
\* Variant of DrainNext: a line of empty_channels is missing.
DrainNextSkip(pc) == IF pc + 1 >= Len(ChannelOrder) THEN 0 ELSE pc + 2

\* Variant of DrainNext: the line of the current channel is run again.
DrainNextAgain(pc) == pc

DrainNext(pc) == IF pc = Len(ChannelOrder) THEN 0 ELSE pc + 1

try_iter_step ==
    /\ drainPc > 0
    /\ LET c == ChannelOrder[drainPc]
       IN  IF chan[c] # <<>>
           THEN /\ chan' = [chan EXCEPT ![c] = Tail(@)]
                /\ taken' = [taken EXCEPT
                               ![c] = Append(@, Taken(Head(chan[c]), "drop"))]
                /\ UNCHANGED drainPc
           ELSE /\ drainPc' = DrainNext(drainPc)
                /\ UNCHANGED <<chan, taken>>
    /\ UNCHANGED <<sentLog, receivers, inPoll, fired, lastCall, logged, fault,
                   boxes, ret>>

(***************************************************************************)
(* Receivers on other threads.  Each thread holds a clone of Receivers and *)
(* reads or runs empty_channels while the poll thread sends; one try_recv  *)
(* is one step.                                                            *)
(***************************************************************************)
Threads == {"reader", "cleaner"}

\* Variant of try_recv_by: the event is handed out and stays queued.
try_recv_by_peek(t, c) ==
    /\ drains[t] = 0
    /\ chan[c] # <<>>
    /\ taken' = [taken EXCEPT ![c] = Append(@, Taken(Head(chan[c]), "recv"))]
    /\ UNCHANGED <<chan, sentLog, receivers, drainPc, inPoll, fired, lastCall,
                   logged, fault, boxes, ret, drains>>

\* Receiver::try_recv on thread t.
try_recv_by(t, c) ==
    /\ drains[t] = 0
    /\ chan[c] # <<>>
    /\ chan' = [chan EXCEPT ![c] = Tail(@)]
    /\ taken' = [taken EXCEPT ![c] = Append(@, Taken(Head(chan[c]), "recv"))]
    /\ UNCHANGED <<sentLog, receivers, drainPc, inPoll, fired, lastCall,
                   logged, fault, boxes, ret, drains>>

\* Thread t enters Receivers::empty_channels.
empty_channels_by(t) ==
    /\ drains[t] = 0
    /\ drains' = [drains EXCEPT ![t] = 1]
    /\ UNCHANGED <<chan, sentLog, taken, receivers, drainPc, inPoll, fired,
                   lastCall, logged, fault, boxes, ret>>

\* One try_recv of thread t's try_iter().for_each(drop).
try_iter_step_by(t) ==
    /\ drains[t] > 0
    /\ LET c == ChannelOrder[drains[t]]
       IN  IF chan[c] # <<>>
           THEN /\ chan' = [chan EXCEPT ![c] = Tail(@)]
                /\ taken' = [taken EXCEPT
                               ![c] = Append(@, Taken(Head(chan[c]), "drop"))]
                /\ UNCHANGED drains
           ELSE /\ drains' = [drains EXCEPT ![t] = DrainNext(@)]
                /\ UNCHANGED <<chan, taken>>
    /\ UNCHANGED <<sentLog, receivers, drainPc, inPoll, fired, lastCall, logged,
                   fault, boxes, ret>>

(***************************************************************************)
(* The session under single-threaded cooperative polling: the application  *)
(* thread is polling, or inside empty_channels, or free to use Receivers.  *)
(***************************************************************************)
NoCall == [slot |-> "none", arg |-> NoData]

(***************************************************************************)
(* Fixed-capacity text buffers of the native records.  unlocked_at holds   *)
(* 64 bytes (the tests of achievement.rs fill it exactly and overflow it   *)
(* by one); the capacity of shortcut is a bound of the model.              *)
(***************************************************************************)
UnlockedAtCap == 64
ShortcutCap == 3
Builds == {"debug", "release"}
Bytes == {0, 65}
Kinds == {"VoiceActivity", "PushToTalk"}

ZeroBuf(n) == [i \in 1..n |-> 0]

\* utils::charbuf_len: the index of the first NUL, or the whole length.
charbuf_len(buf) == Len(UntilNul(buf))

\* InputModeKind <-> sys::EDiscordInputModeType
kind_into_sys(kind) == IF kind = "VoiceActivity" THEN 0 ELSE 1
kind_from_sys(type_) == IF type_ = 0 THEN "VoiceActivity" ELSE "PushToTalk"

\* impl From<sys::DiscordInputMode> for InputMode
InputMode_from(sys) ==
    [sys |-> sys, shortcut_len |-> charbuf_len(sys.shortcut)]

\* sys::DiscordInputMode::default(): every byte zero
DiscordInputMode_default == [type_ |-> 0, shortcut |-> ZeroBuf(ShortcutCap)]

\* Variant of Achievement_from: the last byte is kept for a terminator.
Achievement_from_reserving(sys) ==
    [sys |-> sys,
     unlocked_at_len |->
         IF charbuf_len(sys.unlocked_at) = Len(sys.unlocked_at)
         THEN Len(sys.unlocked_at) - 1
         ELSE charbuf_len(sys.unlocked_at)]

\* impl From<sys::DiscordUserAchievement> for Achievement
Achievement_from(sys) ==
    [sys |-> sys, unlocked_at_len |-> charbuf_len(sys.unlocked_at)]

\* sys::DiscordUserAchievement::default(): every byte zero
DiscordUserAchievement_default == [unlocked_at |-> ZeroBuf(UnlockedAtCap)]

NoInputModeCall ==
    [op |-> "none", kind |-> "VoiceActivity", value |-> <<>>,
     outcome |-> "ok", valid |-> TRUE, over |-> 0]

NoRunTest ==
    [op |-> "none", val |-> <<>>, outcome |-> "ok", unlocked_at_len |-> 0,
     read |-> <<>>]

InitSession ==
    /\ chan = create_channels
    /\ sentLog = [c \in Channels |-> <<>>]
    /\ taken = [c \in Channels |-> <<>>]
    /\ receivers = 1
    /\ drainPc = 0
    /\ inPoll = FALSE
    /\ fired = 0
    /\ lastCall = NoCall
    /\ logged = 0
    /\ fault = "none"
    /\ boxes = <<>>
    /\ ret = [op |-> "none", input |-> <<>>, args |-> <<>>, status |-> 0,
              out |-> <<>>, result |-> Ok(<<>>)]

InitValues ==
    /\ drains = [t \in Threads |-> 0]
    /\ im = InputMode_from(DiscordInputMode_default)
    /\ imIn = NoInputModeCall
    /\ ach = NoRunTest

InitEvents == InitSession /\ build = "debug" /\ InitValues

AppIdle == drainPc = 0 /\ ~inPoll

NextEvents ==
    /\ fault = "none"
    /\ UNCHANGED <<codecVars, drains>>
    /\ \/ AppIdle /\ PollBegin
       \/ AppIdle /\ \E c \in Channels : Recv(c)
       \/ AppIdle /\ CloneReceivers
       \/ AppIdle /\ DropReceivers
       \/ AppIdle /\ empty_channels
       \/ try_iter_step
       \/ DispatchCallback
       \/ PollEnd

SpecEvents == InitEvents /\ [][NextEvents]_vars

(***************************************************************************)
(* The poll thread and the threads of Receivers, in any interleaving.      *)
(* Init: the Receivers has been cloned once for each thread.               *)
(***************************************************************************)
InitThreads ==
    /\ chan = create_channels
    /\ sentLog = [c \in Channels |-> <<>>]
    /\ taken = [c \in Channels |-> <<>>]
    /\ receivers = Cardinality(Threads)
    /\ drainPc = 0
    /\ inPoll = FALSE
    /\ fired = 0
    /\ lastCall = NoCall
    /\ logged = 0
    /\ fault = "none"
    /\ boxes = <<>>
    /\ ret = [op |-> "none", input |-> <<>>, args |-> <<>>, status |-> 0,
              out |-> <<>>, result |-> Ok(<<>>)]
    /\ build = "debug"
    /\ InitValues

NextThreads ==
    /\ fault = "none"
    /\ UNCHANGED codecVars
    /\ \/ PollBegin /\ UNCHANGED drains
       \/ (\E locked \in BOOLEAN : on_toggle(locked)) /\ UNCHANGED drains
       \/ PollEnd /\ UNCHANGED drains
       \/ \E t \in Threads, c \in Channels : try_recv_by(t, c)
       \/ \E t \in Threads : empty_channels_by(t)
       \/ \E t \in Threads : try_iter_step_by(t)

SpecThreads == InitThreads /\ [][NextThreads]_vars

\* A thread that is inside empty_channels keeps executing it: the function
\* is straight-line code over non-blocking try_recv calls.
SpecThreadsFair ==
    /\ SpecThreads
    /\ \A t \in Threads :
          WF_vars(try_iter_step_by(t) /\ UNCHANGED codecVars)

(***************************************************************************)
(* The context pointer.  Every callback of event.rs that pushes an event   *)
(* starts with                                                             *)
(*   unsafe { (event_data as *mut Discord).as_mut() }.unwrap()             *)
(* and none of them has a guard around its body, so the panic of the       *)
(* unwrap on a null event_data leaves an extern "C" function.  What the    *)
(* build makes of that is not defined: it aborts the process or the        *)
(* unwinding continues into the frames of the native library.              *)
(***************************************************************************)
ContextSlots ==
    {"on_current_user_update", "on_activity_join", "on_activity_spectate",
     "on_activity_join_request", "on_activity_invite", "on_toggle",
     "on_settings_update"}

PanicOutcomes == {"abort", "unwound"}

as_mut_unwrap_null(slot) ==
    /\ NativeFires(slot, NoData)
    /\ fault' \in PanicOutcomes
    /\ UNCHANGED <<chan, sentLog, logged>>

NextGuard ==
    /\ fault = "none"
    /\ UNCHANGED <<codecVars, drains>>
    /\ \/ AppIdle /\ PollBegin
       \/ DispatchCallback
       \/ \E slot \in ContextSlots : as_mut_unwrap_null(slot)
       \/ PollEnd

SpecGuard == InitEvents /\ [][NextGuard]_vars

(***************************************************************************)
(* Native status codes (sys::EDiscordResult) and their typed Result.       *)
(***************************************************************************)
DiscordResult_Ok == 0

ResultCodes == { 0, 1, 4 }

ErrorName(code) ==
    CASE code = 1 -> "ServiceUnavailable"
      [] code = 4 -> "InternalError"
      [] OTHER -> "Unknown"

\* ToResult::to_result: Ok(()) for the success sentinel, else the error of
\* that code.
to_result(code) ==
    IF code = DiscordResult_Ok THEN Ok(NoData) ELSE Err(ErrorName(code))

(***************************************************************************)
(* Text and buffers the asynchronous calls take.                           *)
(***************************************************************************)
Filenames == { <<>>, <<102>>, <<102, 0>> }

InviteCodes == { <<65>>, <<65, 0, 66>> }

\* A buffer length (usize) as hi * 2^32 + lo.
BufferLens == { [hi |-> 0, lo |-> 0], [hi |-> 0, lo |-> 3] }

Actions == { 1, 2 }

\* What the native library passes to a read completion: a pointer and a
\* length.  On success the pointer is to the bytes read; on failure it may
\* point nowhere.
NativeData ==
    { [valid |-> TRUE, data |-> <<1, 2>>, len |-> 2],
      [valid |-> TRUE, data |-> <<1, 2>>, len |-> 1],
      [valid |-> FALSE, data |-> <<>>, len |-> 2] }

\* Buffer lengths that do not fit 32 bits, next to those that do.
WideBufferLens == BufferLens \cup { [hi |-> 1, lo |-> 0], [hi |-> 1, lo |-> 3] }

\* u32::try_from(buffer.len()).is_ok()
FitsU32(n) == n.hi = 0

\* Variant of as_u32: the length counts one byte more than the buffer has.
as_u32_plus(n) == n.lo + 1

\* buffer.len() as u32: the low 32 bits.
as_u32(n) == n.lo

\* Variant of NulTerminate: the NUL is appended whatever the filename ends with.
NulTerminateAlways(filename) == Append(filename, 0)

\* if !filename.ends_with('\0') { filename.to_mut().push('\0') }
NulTerminate(filename) ==
    IF filename # <<>> /\ filename[Len(filename)] = 0 THEN filename
    ELSE Append(filename, 0)

HasNul(text) == \E i \in 1..Len(text) : text[i] = 0

\* std::slice::from_raw_parts(data, data_len as usize): the first data_len
\* bytes at data.
from_raw_parts(nd) == SubSeq(nd.data, 1, nd.len)

(***************************************************************************)
(* Callback Context Boxes.  A box is made by Box::into_raw(Box::new(..))   *)
(* and its address handed to the native library with the trampoline.       *)
(*   state : "held" while the address is out, "freed" once reclaimed       *)
(*   native: "pending" while the native library will complete the request, *)
(*           "rejected" if it dropped the request in the issuing call,     *)
(*           "completed" once it has called the trampoline                 *)
(***************************************************************************)
NewBox(op, input, args) ==
    [op |-> op, input |-> input, args |-> args, state |-> "held", native |-> "pending",
     status |-> -1, calls |-> 0, frees |-> 0, result |-> Err("none"),
     sliceBuilt |-> FALSE, calledInPoll |-> FALSE]

\* The issuing call: the box is made and the native entry point is called
\* with it.  The entry point returns nothing; the native library has taken
\* the request or has dropped it.
\* Variant of HandOff: the closure is also called in the issuing call.
HandOffAndCall(op, input, args) ==
    /\ Len(boxes) < MaxOps
    /\ \E accepted \in BOOLEAN :
         boxes' = Append(boxes,
                         [NewBox(op, input, args) EXCEPT
                            !.native = IF accepted THEN "pending"
                                       ELSE "rejected",
                            !.calls = 1,
                            !.result = Ok(NoData)])
    /\ UNCHANGED <<chan, sentLog, taken, receivers, drainPc, inPoll, fired,
                   lastCall, logged, fault, ret>>

\* Variant of HandOff: the address of a closure dropped on return is
\* handed off.
HandOffBorrowed(op, input, args) ==
    /\ Len(boxes) < MaxOps
    /\ \E accepted \in BOOLEAN :
         boxes' = Append(boxes,
                         [NewBox(op, input, args) EXCEPT
                            !.native = IF accepted THEN "pending"
                                       ELSE "rejected",
                            !.state = "freed",
                            !.frees = 1])
    /\ UNCHANGED <<chan, sentLog, taken, receivers, drainPc, inPoll, fired,
                   lastCall, logged, fault, ret>>

HandOff(op, input, args) ==
    /\ Len(boxes) < MaxOps
    /\ \E accepted \in BOOLEAN :
         boxes' = Append(boxes,
                         [NewBox(op, input, args) EXCEPT
                            !.native = IF accepted THEN "pending"
                                       ELSE "rejected"])
    /\ UNCHANGED <<chan, sentLog, taken, receivers, drainPc, inPoll, fired,
                   lastCall, logged, fault, ret>>

\* A panic in the issuing call, before anything is handed to native code.
PanicBeforeCall ==
    /\ fault' = "panic"
    /\ UNCHANGED <<chan, sentLog, taken, receivers, drainPc, inPoll, fired,
                   lastCall, logged, boxes, ret>>

\* Overlay
set_overlay_opened(opened) == HandOff("set_overlay_opened", <<opened>>, <<opened>>)

open_invite_overlay(action) == HandOff("open_invite_overlay", <<action>>, <<action>>)

open_guild_invite_overlay(code) ==
    IF HasNul(code)
    THEN PanicBeforeCall
    ELSE HandOff("open_guild_invite_overlay", <<code>>,
                 <<Append(code, 0)>>)

open_voice_settings == HandOff("open_voice_settings", <<>>, <<>>)

\* Storage
read_file_async(filename) ==
    HandOff("read_file_async", <<filename>>, <<NulTerminate(filename)>>)

read_file_async_partial(filename, offset, length) ==
    HandOff("read_file_async_partial", <<filename, offset, length>>,
            <<NulTerminate(filename), offset, length>>)

\* debug_assert!(u32::try_from(buffer.len()).is_ok()) comes first.
write_file_async(filename, buflen) ==
    IF build = "debug" /\ ~FitsU32(buflen)
    THEN PanicBeforeCall
    ELSE HandOff("write_file_async", <<filename, buflen>>,
                 <<NulTerminate(filename), as_u32(buflen)>>)

IssueAsync ==
    \/ \E opened \in BOOLEAN : set_overlay_opened(opened)
    \/ \E action \in Actions : open_invite_overlay(action)
    \/ \E code \in InviteCodes : open_guild_invite_overlay(code)
    \/ open_voice_settings
    \/ \E f \in Filenames : read_file_async(f)
    \/ \E f \in Filenames : read_file_async_partial(f, 0, 1)
    \/ \E f \in Filenames, n \in BufferLens : write_file_async(f, n)

(***************************************************************************)
(* Completions.  What the closure receives, and whether a slice was built  *)
(* from (data, data_len).                                                  *)
(***************************************************************************)
Outcome(result, sliceBuilt) == [result |-> result, sliceBuilt |-> sliceBuilt]

\* across_ffi::callbacks::result::<F>
callbacks_result(res) == Outcome(to_result(res), FALSE)

\* |res, data, data_len| callback(res.to_result().map(|()| from_raw_parts(..)))
\* Variant of read_async_completion: the slice is built before the status
\* is looked at.
read_async_completion_unchecked(res, nd) ==
    LET r == to_result(res)
    IN  IF r.ok THEN Outcome(Ok(from_raw_parts(nd)), TRUE)
        ELSE Outcome(r, TRUE)

read_async_completion(res, nd) ==
    LET r == to_result(res)
    IN  IF r.ok THEN Outcome(Ok(from_raw_parts(nd)), TRUE)
        ELSE Outcome(r, FALSE)

\* |res| callback(res.to_result())
write_async_completion(res) == Outcome(to_result(res), FALSE)

CompletionOf(op, res, nd) ==
    CASE op \in {"read_file_async", "read_file_async_partial"} ->
             read_async_completion(res, nd)
      [] op = "write_file_async" -> write_async_completion(res)
      [] OTHER -> callbacks_result(res)

\* The trampoline: the box is rebuilt from the context pointer, its closure
\* is called with the outcome, and the box is freed.
Trampoline(box, res, nd) ==
    LET o == CompletionOf(box.op, res, nd)
    IN  [box EXCEPT !.state = "freed",
                    !.frees = @ + 1,
                    !.calls = @ + 1,
                    !.result = o.result,
                    !.sliceBuilt = o.sliceBuilt,
                    !.calledInPoll = inPoll]

\* The native library reports the completion of a request it took, during
\* a poll.  A successful read comes with the bytes read.
NativeCompletes ==
    /\ inPoll
    /\ \E b \in 1..Len(boxes), res \in ResultCodes, nd \in NativeData :
         /\ boxes[b].native = "pending"
         /\ res = DiscordResult_Ok => nd.valid
         /\ boxes' = [boxes EXCEPT
                        ![b] = [Trampoline(boxes[b], res, nd) EXCEPT
                                  !.native = "completed",
                                  !.status = res]]
    /\ UNCHANGED <<chan, sentLog, taken, receivers, drainPc, inPoll, fired,
                   lastCall, logged, fault, ret>>

InitAsync == InitEvents

NextAsync ==
    /\ fault = "none"
    /\ UNCHANGED <<codecVars, drains>>
    /\ \/ AppIdle /\ PollBegin
       \/ AppIdle /\ IssueAsync
       \/ NativeCompletes
       \/ PollEnd

SpecAsync == InitAsync /\ [][NextAsync]_vars

(***************************************************************************)
(* The producer side of a whole session: polls, the dispatch callbacks     *)
(* and the asynchronous calls with their completions, in one run.          *)
(***************************************************************************)
\* Dispatch invocations and asynchronous calls made so far.
SessionCalls == fired + Len(boxes)

NextSession ==
    /\ fault = "none"
    /\ UNCHANGED <<codecVars, drains>>
    /\ \/ AppIdle /\ PollBegin
       \/ AppIdle /\ SessionCalls < MaxOps /\ IssueAsync
       \/ NativeCompletes
       \/ SessionCalls < MaxOps /\ DispatchCallback
       \/ PollEnd

SpecSession == InitEvents /\ [][NextSession]_vars

(***************************************************************************)
(* The synchronous storage calls.  The native entry point returns a       *)
(* status code and may write its out-parameter whatever the status.        *)
(***************************************************************************)
ReadCounts == { 0, 2 }

FileStats == { [size |-> 0], [size |-> 5] }

Indexes == { 0, 1 }

\* The path buffer as the native library leaves it.
RawPaths == { <<47, 0, 0>>, <<47, 97, 0>> }

\* utils::charbuf_to_str: the bytes of the buffer before the first NUL.
charbuf_to_str(buf) == UntilNul(buf)

\* ret: the call and the arguments it was made with, what the native entry
\* point was given, the status it returned, what it wrote to the
\* out-parameter, what the call returned.
Returned(op, input, args, status, out, result) ==
    [op |-> op, input |-> input, args |-> args, status |-> status,
     out |-> out, result |-> result]

\* .to_result()?; Ok(out)
Returns(op, input, args, status, out) ==
    /\ ret' = Returned(op, input, args, status, out,
                       IF to_result(status).ok THEN Ok(out)
                       ELSE to_result(status))
    /\ UNCHANGED <<chan, sentLog, taken, receivers, drainPc, inPoll, fired,
                   lastCall, logged, fault, boxes>>

\* Variant of read_file: the status is not looked at.
read_file_unchecked(filename, buflen, status, read) ==
    /\ ret' = Returned("read_file", <<filename, buflen>>,
                       <<NulTerminate(filename), as_u32(buflen)>>,
                       status, read, Ok(read))
    /\ UNCHANGED <<chan, sentLog, taken, receivers, drainPc, inPoll, fired,
                   lastCall, logged, fault, boxes>>

\* debug_assert!(u32::try_from(buffer.len()).is_ok()) comes first.
read_file(filename, buflen, status, read) ==
    IF build = "debug" /\ ~FitsU32(buflen)
    THEN PanicBeforeCall
    ELSE Returns("read_file", <<filename, buflen>>,
                 <<NulTerminate(filename), as_u32(buflen)>>, status, read)

write_file(filename, buflen, status) ==
    IF build = "debug" /\ ~FitsU32(buflen)
    THEN PanicBeforeCall
    ELSE Returns("write_file", <<filename, buflen>>,
                 <<NulTerminate(filename), as_u32(buflen)>>, status, NoData)

delete_file(filename, status) ==
    Returns("delete_file", <<filename>>, <<NulTerminate(filename)>>,
            status, NoData)

file_exists(filename, status, exists) ==
    Returns("file_exists", <<filename>>, <<NulTerminate(filename)>>,
            status, exists)

file_stat(filename, status, stat) ==
    Returns("file_stat", <<filename>>, <<NulTerminate(filename)>>,
            status, stat)

file_stat_at(index, status, stat) ==
    Returns("file_stat_at", <<index>>, <<index>>, status, stat)

folder_path(status, path) ==
    Returns("folder_path", <<>>, <<>>, status, charbuf_to_str(path))

NextStorage ==
    /\ UNCHANGED <<codecVars, drains>>
    /\ \E status \in ResultCodes :
       \/ \E f \in Filenames, n \in BufferLens, read \in ReadCounts :
              read_file(f, n, status, read)
       \/ \E f \in Filenames, n \in BufferLens : write_file(f, n, status)
       \/ \E f \in Filenames : delete_file(f, status)
       \/ \E f \in Filenames, exists \in BOOLEAN :
              file_exists(f, status, exists)
       \/ \E f \in Filenames, stat \in FileStats : file_stat(f, status, stat)
       \/ \E i \in Indexes, stat \in FileStats : file_stat_at(i, status, stat)
       \/ \E path \in RawPaths : folder_path(status, path)

SpecStorage == InitEvents /\ [][NextStorage]_vars

(***************************************************************************)
(* Every storage call that takes a filename, synchronous or asynchronous.  *)
(* The calls share no state, so a run makes calls of the one sort or of    *)
(* the other.                                                              *)
(***************************************************************************)
IssueStorageAsync ==
    \/ \E f \in Filenames : read_file_async(f)
    \/ \E f \in Filenames : read_file_async_partial(f, 0, 1)
    \/ \E f \in Filenames, n \in BufferLens : write_file_async(f, n)

NextFilenames ==
    \/ boxes = <<>> /\ NextStorage
    \/ ret.op = "none" /\ UNCHANGED <<codecVars, drains>> /\ IssueStorageAsync

SpecFilenames == InitEvents /\ [][NextFilenames]_vars

(***************************************************************************)
(* The storage calls that take a buffer, with buffers of every length and  *)
(* in either build.                                                        *)
(***************************************************************************)
NextLengths ==
    /\ fault = "none"
    /\ UNCHANGED <<codecVars, drains>>
    /\ \/ /\ boxes = <<>>
          /\ \E f \in Filenames, n \in WideBufferLens,
                status \in ResultCodes, read \in ReadCounts :
                   read_file(f, n, status, read)
       \/ /\ boxes = <<>>
          /\ \E f \in Filenames, n \in WideBufferLens,
                status \in ResultCodes :
                   write_file(f, n, status)
       \/ /\ ret.op = "none"
          /\ \E f \in Filenames, n \in WideBufferLens : write_file_async(f, n)

InitLengths == InitSession /\ build \in Builds /\ InitValues

SpecLengths == InitLengths /\ [][NextLengths]_vars

(***************************************************************************)
(* Text in fixed-capacity buffers: InputMode (input_mode.rs) and the       *)
(* run_test of achievement.rs.  write_charbuf guards its contract with a   *)
(* debug assertion, so what a violation does depends on the build: with    *)
(* the assertion compiled in it panics before it writes; without it a      *)
(* text that fits is copied with its NUL inside, and the copy of a text    *)
(* that does not fit panics or stops at the end of the buffer.             *)
(***************************************************************************)
ShortcutTexts ==
    UNION {[1..n -> Bytes] : n \in 0..(ShortcutCap + 1)}
        \cup {<<66>>, <<66, 65>>, <<65, 66>>}

Rep(b, n) == [i \in 1..n |-> b]

AchTexts ==
    {Rep(65, n) : n \in 0..(UnlockedAtCap + 1)}
        \cup {<<65, 66>>, <<66, 65>>, <<65, 0, 66>>}

sessionVars ==
    <<chan, sentLog, taken, receivers, drainPc, inPoll, fired, lastCall,
      logged, boxes, ret, drains>>

Written(buf) == [panic |-> FALSE, buf |-> buf]
Panicked(buf) == [panic |-> TRUE, buf |-> buf]

write_charbuf(charbuf, value, debug, truncates) ==
    IF Len(value) > Len(charbuf)
    THEN IF debug \/ ~truncates
         THEN Panicked(charbuf)
         ELSE Written(SubSeq(value, 1, Len(charbuf)))
    ELSE IF debug /\ HasNul(value)
         THEN Panicked(charbuf)
         ELSE Written(value \o ZeroBuf(Len(charbuf) - Len(value)))

\* What the unguarded copy of a text that does not fit may do: stop at the
\* end of the buffer (TRUE) or panic (FALSE).
CopyOutcomes(charbuf, value) ==
    IF build = "release" /\ Len(value) > Len(charbuf) THEN BOOLEAN
    ELSE {FALSE}

\* Text a caller may pass: no NUL byte, no longer than the buffer.
ValidText(value, cap) == ~HasNul(value) /\ Len(value) <= cap

\* InputMode::kind
InputMode_kind(m) == kind_from_sys(m.sys.type_)

\* InputMode::shortcut; the slice panics beyond the end of the buffer.
Sliceable(m) == m.shortcut_len <= Len(m.sys.shortcut)
InputMode_shortcut(m) ==
    charbuf_to_str(SubSeq(m.sys.shortcut, 1, m.shortcut_len))

\* Variant of unlocked_at: the slice stops one byte early.
unlocked_at_short(a) ==
    charbuf_to_str(SubSeq(a.sys.unlocked_at, 1, a.unlocked_at_len - 1))

\* Achievement::unlocked_at
unlocked_at(a) == charbuf_to_str(SubSeq(a.sys.unlocked_at, 1, a.unlocked_at_len))

InputMode_empty ==
    /\ im' = InputMode_from(DiscordInputMode_default)
    /\ imIn' = [NoInputModeCall EXCEPT !.op = "empty"]
    /\ UNCHANGED <<sessionVars, fault, build, ach>>

\* Variant of with_kind: the mode is built anew around the kind.
with_kind_anew(kind) ==
    /\ im' = InputMode_from([DiscordInputMode_default EXCEPT
                                !.type_ = kind_into_sys(kind)])
    /\ imIn' = [imIn EXCEPT !.op = "with_kind", !.kind = kind]
    /\ UNCHANGED <<sessionVars, fault, build, ach>>

with_kind(kind) ==
    /\ im' = [im EXCEPT !.sys.type_ = kind_into_sys(kind)]
    /\ imIn' = [imIn EXCEPT !.op = "with_kind", !.kind = kind]
    /\ UNCHANGED <<sessionVars, fault, build, ach>>

\* Variant of with_shortcut: the stored length is left as it was.
with_shortcut_keeps_len(value) ==
    \E truncates \in CopyOutcomes(im.sys.shortcut, value) :
       LET w == write_charbuf(im.sys.shortcut, value, build = "debug",
                              truncates)
       IN  /\ im' = IF w.panic THEN im
                    ELSE [im EXCEPT !.sys.shortcut = w.buf]
           /\ fault' = IF w.panic THEN "panic" ELSE fault
           /\ imIn' = [imIn EXCEPT
                          !.op = "with_shortcut",
                          !.value = value,
                          !.outcome = IF w.panic THEN "panic" ELSE "ok",
                          !.over = im.shortcut_len,
                          !.valid = imIn.valid /\ ValidText(value, ShortcutCap)]
           /\ UNCHANGED <<sessionVars, build, ach>>

\* Variant of with_shortcut: the text is written into a fresh record.
with_shortcut_anew(value) ==
    \E truncates \in CopyOutcomes(im.sys.shortcut, value) :
       LET w == write_charbuf(im.sys.shortcut, value, build = "debug",
                              truncates)
       IN  /\ im' = IF w.panic THEN im
                    ELSE [sys |-> [DiscordInputMode_default EXCEPT
                                      !.shortcut = w.buf],
                          shortcut_len |-> Len(value)]
           /\ fault' = IF w.panic THEN "panic" ELSE fault
           /\ imIn' = [imIn EXCEPT
                          !.op = "with_shortcut",
                          !.value = value,
                          !.outcome = IF w.panic THEN "panic" ELSE "ok",
                          !.over = im.shortcut_len,
                          !.valid = imIn.valid /\ ValidText(value, ShortcutCap)]
           /\ UNCHANGED <<sessionVars, build, ach>>

with_shortcut(value) ==
    \E truncates \in CopyOutcomes(im.sys.shortcut, value) :
       LET w == write_charbuf(im.sys.shortcut, value, build = "debug",
                              truncates)
       IN  /\ im' = IF w.panic THEN im
                    ELSE [im EXCEPT !.sys.shortcut = w.buf,
                                    !.shortcut_len = Len(value)]
           /\ fault' = IF w.panic THEN "panic" ELSE fault
           /\ imIn' = [imIn EXCEPT
                          !.op = "with_shortcut",
                          !.value = value,
                          !.outcome = IF w.panic THEN "panic" ELSE "ok",
                          !.over = im.shortcut_len,
                          !.valid = imIn.valid /\ ValidText(value, ShortcutCap)]
           /\ UNCHANGED <<sessionVars, build, ach>>

\* achievement.rs, mod tests: write, convert, read back, assert_eq!
run_test(val) ==
    \E truncates \in CopyOutcomes(DiscordUserAchievement_default.unlocked_at,
                                   val) :
       LET source == DiscordUserAchievement_default
           w == write_charbuf(source.unlocked_at, val, build = "debug",
                              truncates)
           achievement ==
               Achievement_from([source EXCEPT !.unlocked_at = w.buf])
           read == unlocked_at(achievement)
           ok == ~w.panic /\ read = val
       IN  /\ ach' = [op |-> "run_test", val |-> val,
                      outcome |-> IF ok THEN "ok" ELSE "panic",
                      unlocked_at_len |->
                          IF w.panic THEN 0 ELSE achievement.unlocked_at_len,
                      read |-> IF w.panic THEN <<>> ELSE read]
           /\ fault' = IF ok THEN fault ELSE "panic"
           /\ UNCHANGED <<sessionVars, build, im, imIn>>

InitCodec == InitSession /\ build \in Builds /\ InitValues

\* The tests of achievement.rs run in a test binary of their own; a program
\* that builds an InputMode is another process.
InTestBinary == imIn.op = "none"
InProgram == ach.op = "none"

NextCodec ==
    /\ fault = "none"
    /\ \/ InProgram /\ InputMode_empty
       \/ InProgram /\ \E kind \in Kinds : with_kind(kind)
       \/ InProgram /\ \E value \in ShortcutTexts : with_shortcut(value)
       \/ InTestBinary /\ \E val \in AchTexts : run_test(val)

SpecCodec == InitCodec /\ [][NextCodec]_vars

(***************************************************************************)
(* Properties.                                                             *)
(***************************************************************************)
BoxIds == 1..Len(boxes)

ReadOps == { "read_file_async", "read_file_async_partial" }

\* The events of a removal log, in removal order.
Values(log) == [i \in 1..Len(log) |-> log[i].event]

IsPrefix(s, t) == Len(s) <= Len(t) /\ SubSeq(t, 1, Len(s)) = s

\* The channel of the event kind a dispatch slot reports.
SlotChannel(slot) ==
    CASE slot = "on_current_user_update" -> "current_user_update"
      [] slot = "on_activity_join" -> "activities_join"
      [] slot = "on_activity_spectate" -> "activities_spectate"
      [] slot = "on_activity_join_request" -> "activities_request"
      [] slot = "on_activity_invite" -> "activities_invite"
      [] slot = "on_refresh" -> "relationships_refresh"
      [] slot = "on_relationship_update" -> "relationships_update"
      [] slot = "on_lobby_update" -> "lobbies_update"
      [] slot = "on_lobby_delete" -> "lobbies_delete"
      [] slot = "on_member_connect" -> "lobbies_member_connect"
      [] slot = "on_member_update" -> "lobbies_member_update"
      [] slot = "on_member_disconnect" -> "lobbies_member_disconnect"
      [] slot = "on_lobby_message" -> "lobbies_message"
      [] slot = "on_speaking" -> "lobbies_speaking"
      [] slot = "on_network_message" -> "lobbies_network_message"
      [] slot = "on_message" -> "networking_message"
      [] slot = "on_route_update" -> "networking_route_update"
      [] slot = "on_toggle" -> "overlay_toggle"
      [] slot = "on_entitlement_create" -> "store_entitlement_create"
      [] slot = "on_entitlement_delete" -> "store_entitlement_delete"
      [] slot = "on_settings_update" -> "voice_settings_update"

\* Raw text that is not UTF-8.
BadText(raw) == \E i \in 1..Len(raw) : raw[i] = 255

\* The data of an ACTIVITY slot invocation that cannot be decoded.
Undecodable(call) ==
    CASE call.slot \in {"on_activity_join", "on_activity_spectate"} ->
             BadText(call.arg)
      [] call.slot = "on_activity_join_request" -> BadText(call.arg.username)
      [] call.slot = "on_activity_invite" ->
             BadText(call.arg[1].username) \/ BadText(call.arg[2].name)
      [] OTHER -> FALSE

\* C1: the closure of an issued asynchronous call is invoked at most once;
\* it has been invoked exactly once, inside a poll and with the typed Result
\* of the reported status, if and only if the native library has reported
\* the completion, and not at all otherwise.
C1_ClosureExactlyOnce ==
    \A b \in BoxIds :
        /\ boxes[b].calls <= 1
        /\ boxes[b].calls = 1 <=> boxes[b].native = "completed"
        /\ boxes[b].calls = 1 =>
              /\ boxes[b].calledInPoll
              /\ boxes[b].result.ok <=> boxes[b].status = DiscordResult_Ok
              /\ ~boxes[b].result.ok =>
                     boxes[b].result = Err(ErrorName(boxes[b].status))

C1_Witness ==
    /\ Len(boxes) = 2
    /\ boxes[1].native = "completed" /\ boxes[1].calls = 1
    /\ boxes[2].native = "pending" /\ boxes[2].calls = 0
    /\ ~inPoll

\* C2: a Callback Context Box is held or freed; it is freed exactly when the
\* trampoline has fired for it, then exactly once and with its closure
\* invoked exactly once; a held box has not been invoked.
C2_BoxReclaimedOnce ==
    \A b \in BoxIds :
        /\ boxes[b].state \in {"held", "freed"}
        /\ boxes[b].frees <= 1
        /\ boxes[b].calls <= 1
        /\ boxes[b].state = "freed" <=> boxes[b].native = "completed"
        /\ boxes[b].state = "freed" <=> boxes[b].frees = 1
        /\ boxes[b].state = "freed" <=> boxes[b].calls = 1

C2_Witness ==
    \E b, h \in BoxIds :
        /\ boxes[b].native = "completed" /\ boxes[b].state = "freed"
        /\ boxes[b].frees = 1
        /\ boxes[h].state = "held"

C4_ChannelFifo ==
    \A c \in Channels : Values(taken[c]) \o chan[c] = sentLog[c]

C4_Witness ==
    /\ sentLog["overlay_toggle"] =
          << Event("Opened", NoData), Event("Closed", NoData) >>
    /\ taken["overlay_toggle"] = << Taken(Event("Opened", NoData), "recv") >>
    /\ chan["overlay_toggle"] = << Event("Closed", NoData) >>

\* C5: when empty_channels returns every channel is empty; while it runs
\* every event that leaves a channel is dropped, not handled; and what has
\* left a channel stays removed.
C5_DrainDiscardsAll ==
    [][ /\ (drainPc # 0 /\ drainPc' = 0) =>
              \A c \in Channels : chan'[c] = <<>>
        /\ \A c \in Channels :
              /\ IsPrefix(taken[c], taken'[c])
              /\ Len(taken'[c]) + Len(chan'[c]) = Len(sentLog'[c])
              /\ drainPc # 0 =>
                    \A i \in (Len(taken[c]) + 1)..Len(taken'[c]) :
                        taken'[c][i].how = "drop"
      ]_vars

C5_Witness ==
    /\ drainPc = 0
    /\ Cardinality({ c \in Channels :
                       /\ taken[c] # <<>>
                       /\ taken[c][Len(taken[c])].how = "drop" }) = 2
    /\ \A c \in Channels : chan[c] = <<>>

\* C6: a dispatch callback never panics, and with every Receivers clone
\* gone it leaves every channel as it was.
C6_SendNeverFails ==
    [][ fired' = fired + 1 =>
          /\ fault' = "none"
          /\ receivers = 0 => chan' = chan
      ]_vars

C6_Witness ==
    /\ receivers = 0
    /\ fired = 1
    /\ lastCall.slot = "on_settings_update"
    /\ \A c \in Channels : sentLog[c] = <<>>
    /\ fault = "none"

\* C7: a completion with a failure status hands the closure the error of
\* that status, and a slice is built from (data, data_len) only for a read
\* that succeeded.
C7_FailureYieldsTypedError ==
    \A b \in BoxIds :
        boxes[b].native = "completed" =>
            /\ boxes[b].status # DiscordResult_Ok =>
                  /\ boxes[b].result = Err(ErrorName(boxes[b].status))
                  /\ ~boxes[b].sliceBuilt
            /\ boxes[b].sliceBuilt =>
                  /\ boxes[b].status = DiscordResult_Ok
                  /\ boxes[b].op \in ReadOps

C7_Witness ==
    \E b, w \in BoxIds :
        /\ boxes[b].op = "read_file_async"
        /\ boxes[b].native = "completed"
        /\ boxes[b].status = 4
        /\ boxes[w].op = "write_file_async"
        /\ boxes[w].native = "completed"
        /\ boxes[w].status = 1

SyncOps ==
    { "read_file", "write_file", "delete_file", "file_exists", "file_stat",
      "file_stat_at", "folder_path" }

\* C8: a synchronous storage call returns Ok with the out-parameter exactly
\* when the native status is the success sentinel, and otherwise the error
\* of that status and nothing else.
C8_SyncResult ==
    ret.op \in SyncOps =>
        /\ ret.result.ok <=> ret.status = DiscordResult_Ok
        /\ ret.result.ok => ret.result = Ok(ret.out)
        /\ ~ret.result.ok => ret.result = Err(ErrorName(ret.status))

C8_Witness ==
    /\ ret.op = "read_file"
    /\ ret.status = 4
    /\ ret.out = 2
    /\ ~ret.result.ok

ActivitySlots ==
    { "on_activity_join", "on_activity_spectate", "on_activity_join_request",
      "on_activity_invite" }

\* C9: an ACTIVITY slot invoked with data that cannot be decoded logs the
\* error, writes to no channel and returns.
C9_DecodeFailureDrops ==
    [][ ( /\ fired' = fired + 1
          /\ lastCall'.slot \in ActivitySlots
          /\ Undecodable(lastCall') ) =>
            /\ chan' = chan
            /\ sentLog' = sentLog
            /\ logged' = logged + 1
            /\ fault' = "none"
      ]_vars

C9_Witness ==
    /\ receivers > 0
    /\ logged = 1
    /\ fired = 2
    /\ lastCall.slot = "on_activity_invite"
    /\ Undecodable(lastCall)
    /\ chan["activities_join"] # <<>>

\* C10: a dispatch callback changes no channel but that of its own event
\* kind, and on_settings_update adds exactly one SettingsUpdated event to
\* the voice channel.
C10_OwnChannelOnly ==
    [][ fired' = fired + 1 =>
          /\ \A c \in Channels \ {SlotChannel(lastCall'.slot)} :
                chan'[c] = chan[c]
          /\ (lastCall'.slot = "on_settings_update" /\ receivers > 0) =>
                chan'["voice_settings_update"] =
                    Append(chan["voice_settings_update"],
                           Event("SettingsUpdated", NoData))
      ]_vars

C10_Witness ==
    /\ fired = 1
    /\ ~inPoll
    /\ lastCall.slot = "on_settings_update"
    /\ chan["voice_settings_update"] = << Event("SettingsUpdated", NoData) >>
    /\ \A c \in Channels \ {"voice_settings_update"} : chan[c] = <<>>

\* C11: every callback handed to the native library runs its body inside an
\* unwind guard, so a panic inside it (the unwrap of a null context pointer)
\* ends in a controlled abort and never unwinds across the C boundary.
C11_PanicNeverCrossesBoundary == fault # "unwound"

\* C12: a text with no NUL byte that is strictly shorter than the buffer
\* round-trips: written with write_charbuf and decoded (Achievement::from and
\* unlocked_at, or with_shortcut and shortcut) it comes back exactly, and the
\* call does not fail.
C12_RoundTripBelowCapacity ==
    /\ (/\ imIn.op = "with_shortcut"
        /\ ~HasNul(imIn.value)
        /\ Len(imIn.value) < ShortcutCap)
           => /\ imIn.outcome = "ok"
              /\ Sliceable(im)
              /\ InputMode_shortcut(im) = imIn.value
    /\ (/\ ach.op = "run_test"
        /\ ~HasNul(ach.val)
        /\ Len(ach.val) < UnlockedAtCap)
           => /\ ach.outcome = "ok"
              /\ ach.read = ach.val

C12_Witness ==
    /\ imIn.op = "with_shortcut"
    /\ imIn.value = <<66, 65>>
    /\ InputMode_shortcut(im) = <<66, 65>>

\* A step that is a call of with_shortcut, of run_test.
IsWithShortcut == imIn'.op = "with_shortcut" /\ ach' = ach
IsRunTest == ach'.op = "run_test" /\ imIn' = imIn

C14_UnlockedAtRoundTrip ==
    (ach.op = "run_test" /\ ~HasNul(ach.val))
        => /\ Len(ach.val) <= UnlockedAtCap
               => /\ ach.outcome = "ok"
                  /\ ach.read = ach.val
                  /\ ach.unlocked_at_len = Len(ach.val)
           /\ Len(ach.val) = UnlockedAtCap + 1 => ach.outcome = "panic"

C14_Witness ==
    /\ ach.op = "run_test"
    /\ ach.val = Rep(65, UnlockedAtCap)
    /\ ach.unlocked_at_len = UnlockedAtCap
    /\ ach.read = Rep(65, UnlockedAtCap)

\* C15: with_shortcut given a value with a NUL byte inside does not store it:
\* afterwards shortcut() returns no string containing NUL, and the stored
\* shortcut_len is the position of the first NUL of the buffer.
C15_NulTextNotStored ==
    (/\ imIn.op = "with_shortcut"
     /\ HasNul(imIn.value)
     /\ Len(imIn.value) <= ShortcutCap)
        => /\ im.shortcut_len = charbuf_len(im.sys.shortcut)
           /\ ~HasNul(InputMode_shortcut(im))

\* C16: a call whose text cannot be marshalled (a text with a NUL byte inside
\* or one longer than the fixed buffer it is written to) fails, and no
\* Callback Context Box has been handed to the native library.
C16_MarshallingErrorFailsCall ==
    (imIn.op = "with_shortcut" /\ ~ValidText(imIn.value, ShortcutCap))
        => imIn.outcome = "panic" /\ boxes = <<>>

\* C17: one invocation of a populated dispatch slot with decodable data
\* pushes exactly one event onto the channel of the slot's event kind, for
\* the RELATIONSHIP, LOBBY, NETWORK and STORE slots as for the others.
C17_EverySlotRepublishes ==
    [][ ( /\ fired' = fired + 1
          /\ ~Undecodable(lastCall')
          /\ receivers > 0 ) =>
            Len(sentLog'[SlotChannel(lastCall'.slot)]) =
                Len(sentLog[SlotChannel(lastCall'.slot)]) + 1
      ]_vars

\* C18: no channel gains an event and no completion closure is invoked except
\* while a "process pending callbacks" call runs, and the closure passed to
\* an asynchronous call is not invoked before the issuing call has returned.
C18_OnlyInsidePoll ==
    [][ /\ (\E c \in Channels : sentLog'[c] # sentLog[c])
            => inPoll /\ inPoll'
        /\ \A b \in 1..Len(boxes') :
              /\ b > Len(boxes) => boxes'[b].calls = 0
              /\ (b <= Len(boxes) /\ boxes'[b].calls # boxes[b].calls)
                    => inPoll /\ inPoll' /\ boxes'[b].calledInPoll
      ]_vars

C18_Witness ==
    /\ ~inPoll
    /\ \E c \in Channels : sentLog[c] # <<>>
    /\ \E b \in 1..Len(boxes) : boxes[b].calls = 1 /\ boxes[b].calledInPoll

\* The storage calls that take a filename.
FilenameCalls ==
    {"read_file", "write_file", "delete_file", "file_exists", "file_stat",
     "read_file_async", "read_file_async_partial", "write_file_async"}

EndsWithNul(text) == text # <<>> /\ text[Len(text)] = 0

\* The filename a call was given and the one the native library received.
Normalised(given, handed) ==
    /\ EndsWithNul(given) => handed = given
    /\ ~EndsWithNul(given) => handed = given \o <<0>>
    /\ EndsWithNul(handed)
    /\ NulTerminate(handed) = handed

\* C19: every storage call that takes a filename hands the native library
\* the filename itself when it already ends with NUL and the filename
\* followed by one NUL otherwise; what is handed over always ends with NUL,
\* and normalising it again changes nothing.
C19_FilenameNulTerminated ==
    /\ ret.op \in FilenameCalls => Normalised(ret.input[1], ret.args[1])
    /\ \A b \in 1..Len(boxes) :
          boxes[b].op \in FilenameCalls
              => Normalised(boxes[b].input[1], boxes[b].args[1])

C19_Witness ==
    /\ Len(boxes) = 2
    /\ boxes[1].op = "read_file_async"
    /\ boxes[1].input[1] = <<102>>
    /\ boxes[1].args[1] = <<102, 0>>
    /\ boxes[2].op = "write_file_async"
    /\ boxes[2].input[1] = <<102, 0>>
    /\ boxes[2].args[1] = <<102, 0>>

\* C20: after any sequence of InputMode::empty, with_kind and with_shortcut
\* calls with valid values (no NUL byte, within capacity), shortcut() returns
\* the value of the most recent with_shortcut (the empty string if there was
\* none), also when a shorter value follows a longer one: the bytes after it
\* are NUL and shortcut_len is the index of the first NUL of the buffer.
C20_ShortcutIsLastWritten ==
    (imIn.valid /\ imIn.outcome = "ok")
        => /\ Sliceable(im)
           /\ InputMode_shortcut(im) = imIn.value
           /\ im.shortcut_len = charbuf_len(im.sys.shortcut)
           /\ \A i \in (im.shortcut_len + 1)..Len(im.sys.shortcut) :
                  im.sys.shortcut[i] = 0

C20_Witness ==
    /\ imIn.valid
    /\ imIn.op = "with_kind"
    /\ imIn.over = ShortcutCap
    /\ imIn.value = <<66>>
    /\ InputMode_shortcut(im) = <<66>>
    /\ im.shortcut_len = 1

\* handed (32 bits) is at most the length n of the buffer.
AtMostLen(handed, n) == n.hi > 0 \/ handed <= n.lo

LengthHandedOver(n, handed) ==
    /\ FitsU32(n) => handed = n.lo
    /\ AtMostLen(handed, n)

\* C22: the buffer length read_file, write_file and write_file_async hand to
\* the native library as a 32-bit integer is buffer.len() whenever that fits
\* 32 bits and never more than buffer.len(); the count read_file returns is
\* the count the native library wrote.
C22_LengthHandedAsU32 ==
    /\ ret.op \in {"read_file", "write_file"}
           => LengthHandedOver(ret.input[2], ret.args[2])
    /\ \A b \in 1..Len(boxes) :
          boxes[b].op = "write_file_async"
              => LengthHandedOver(boxes[b].input[2], boxes[b].args[2])
    /\ (ret.op = "read_file" /\ ret.result.ok) => ret.result.val = ret.out

C22_Witness ==
    /\ build = "release"
    /\ ret.op = "read_file"
    /\ ret.input[2] = [hi |-> 1, lo |-> 3]
    /\ ret.args[2] = 3
    /\ ret.result = Ok(2)

\* The overlay event that reports a value of locked.
OverlayEvent(locked) ==
    IF locked THEN Event("Opened", NoData) ELSE Event("Closed", NoData)

IsToggle == fired' = fired + 1 /\ lastCall'.slot = "on_toggle"

\* C23: each invocation of on_toggle adds exactly one event to the overlay
\* channel, Opened when locked is true and Closed when it is false, nothing
\* else adds to that channel, and the events leave the channel in the order
\* they were sent: what the consumer reads is the sequence of locked values.
C23_ToggleSequence ==
    [][ /\ (IsToggle /\ receivers > 0)
            => sentLog'["overlay_toggle"] =
                   Append(sentLog["overlay_toggle"],
                          OverlayEvent(lastCall'.arg))
        /\ ~IsToggle => sentLog'["overlay_toggle"] = sentLog["overlay_toggle"]
        /\ Values(taken'["overlay_toggle"]) \o chan'["overlay_toggle"] =
               sentLog'["overlay_toggle"]
      ]_vars

C23_Witness ==
    /\ fired = 2
    /\ sentLog["overlay_toggle"] = <<OverlayEvent(TRUE), OverlayEvent(FALSE)>>
    /\ Len(taken["overlay_toggle"]) = 2
    /\ \A i \in 1..2 : taken["overlay_toggle"][i].how = "recv"
    /\ Values(taken["overlay_toggle"]) =
           <<OverlayEvent(TRUE), OverlayEvent(FALSE)>>

\* Thread t is inside empty_channels, at channel c.
Draining(t, c) == drains[t] > 0 /\ ChannelOrder[drains[t]] = c

\* C24: with sends on the poll thread interleaved in any way with reads and
\* empty_channels calls on the threads that hold a Receivers clone, a step
\* takes at most the oldest event of a channel, as received by a reading
\* thread or as dropped by a thread whose empty_channels is at that channel,
\* so every event sent is queued or has been taken exactly once, and what is
\* taken from a channel is taken in send order.
C24_EachEventTakenOnce ==
    [][ \A c \in Channels :
          /\ \/ /\ taken'[c] = taken[c]
                /\ IsPrefix(chan[c], chan'[c])
             \/ /\ chan[c] # <<>>
                /\ chan'[c] = Tail(chan[c])
                /\ Len(taken'[c]) = Len(taken[c]) + 1
                /\ IsPrefix(taken[c], taken'[c])
                /\ LET r == taken'[c][Len(taken'[c])]
                   IN  /\ r.event = Head(chan[c])
                       /\ r.how = "drop" => \E t \in Threads : Draining(t, c)
                       /\ r.how = "recv" => \E t \in Threads : drains[t] = 0
          /\ Values(taken'[c]) \o chan'[c] = sentLog'[c]
      ]_vars

C24_Witness ==
    /\ inPoll
    /\ Draining("cleaner", "overlay_toggle")
    /\ drains["reader"] > 0
    /\ ~Draining("reader", "overlay_toggle")
    /\ Len(taken["overlay_toggle"]) = 2
    /\ taken["overlay_toggle"][1].how = "recv"
    /\ taken["overlay_toggle"][2].how = "drop"

\* The dispatch slots whose callback writes whatever its data is.
PlainSlots == {"on_current_user_update", "on_toggle", "on_settings_update"}

\* C25: empty_channels closes and disables nothing: it leaves the number of
\* live Receivers as it was, and afterwards as before an event sent is put at
\* the back of its channel and a read hands out the oldest queued event.
C25_DrainLeavesChannelsOpen ==
    [][ /\ (drainPc # 0 \/ drainPc' # 0) => receivers' = receivers
        /\ (/\ fired' = fired + 1
            /\ lastCall'.slot \in PlainSlots
            /\ receivers > 0)
               => Len(sentLog'[SlotChannel(lastCall'.slot)]) =
                      Len(sentLog[SlotChannel(lastCall'.slot)]) + 1
        /\ \A c \in Channels :
              /\ Len(sentLog'[c]) > Len(sentLog[c])
                    => chan'[c] = Append(chan[c], sentLog'[c][Len(sentLog'[c])])
              /\ (Len(taken'[c]) > Len(taken[c]) /\ drainPc = 0)
                    => /\ taken'[c] =
                              Append(taken[c], Taken(Head(chan[c]), "recv"))
                       /\ chan'[c] = Tail(chan[c])
      ]_vars

C25_Witness ==
    /\ drainPc = 0
    /\ receivers > 0
    /\ taken["overlay_toggle"] =
           << Taken(Event("Opened", NoData), "drop"),
              Taken(Event("Closed", NoData), "recv") >>

\* A step that is a call of with_kind.
IsWithKind == imIn'.op = "with_kind" /\ ach' = ach

\* C26: with_kind sets the kind and leaves the shortcut buffer and
\* shortcut_len as they were, so shortcut() returns the same text before and
\* after; with_shortcut leaves kind() as it was.
C26_SettersFrame ==
    [][ /\ IsWithKind
            => /\ InputMode_kind(im') = imIn'.kind
               /\ im'.sys.shortcut = im.sys.shortcut
               /\ im'.shortcut_len = im.shortcut_len
               /\ Sliceable(im)
                     => InputMode_shortcut(im') = InputMode_shortcut(im)
        /\ IsWithShortcut => InputMode_kind(im') = InputMode_kind(im)
      ]_vars

C26_Witness ==
    /\ imIn.op = "with_shortcut"
    /\ imIn.outcome = "ok"
    /\ imIn.kind = "PushToTalk"
    /\ InputMode_kind(im) = "PushToTalk"
    /\ InputMode_shortcut(im) = <<65, 66>>

\* C27: empty_channels terminates.  A thread inside it walks the channels in
\* the order of its lines, one line after the other and never back, leaves a
\* line only in a step that finds that channel empty and removes nothing,
\* and returns after the last line; with the finitely many events the poll
\* thread sends meanwhile, every call that was entered returns.
C27_DrainTerminates ==
    /\ [][ \A t \in Threads :
             drains'[t] # drains[t]
                => /\ drains'[t] = IF drains[t] = Len(ChannelOrder)
                                   THEN 0 ELSE drains[t] + 1
                   /\ drains[t] # 0
                         => /\ chan[ChannelOrder[drains[t]]] = <<>>
                            /\ chan' = chan
                            /\ taken' = taken
         ]_vars
    /\ \A t \in Threads : (drains[t] # 0) ~> (drains[t] = 0)

C27_Witness ==
    /\ \A t \in Threads : drains[t] = 0
    /\ \A c \in Channels : chan[c] = <<>>
    /\ taken["overlay_toggle"] =
          << Taken(Event("Opened", NoData), "drop"),
             Taken(Event("Closed", NoData), "drop") >>

====
